---- MODULE Spec2Model ----
(***************************************************************************)
(* Model of the photo-diary backend (src/app.py): the three request        *)
(* handlers upload, get_entries and delete_entry over the process-wide     *)
(* ENTRIES mapping, the entries.json file that mirrors it and the S3       *)
(* bucket that holds the media objects.                                    *)
(*                                                                         *)
(* Flask serves requests on threads, so a handler is split at the calls    *)
(* on which it blocks (an S3 call, the ffmpeg subprocess, scratch-file     *)
(* I/O): between two such calls another request may run.                   *)
(***************************************************************************)
EXTENDS Integers, Sequences, FiniteSets, TLC

\* ------------------------------------------------------------------ bounds
\* Number of requests the model accepts before it stops taking new ones.
MaxRequests == 2

\* ------------------------------------------------------------- input sets
\* Request slots: the threads of the server that can handle a request.
Procs == {1, 2}

\* Subject identifiers the identity provider issues ("sub" claims).
Subjects == {"alice", "bob"}

None == "None"

\* A bearer token as PyJWT sees it. wf: whether the text parses as a JWT;
\* kid: whether the JWKS endpoint has the signing key ("known"), lacks it
\* ("unknown") or cannot be fetched ("down").
Jwt(wf, kid, sig, exp, iss, sub) ==
  [wf |-> wf, kid |-> kid, sig |-> sig, expired |-> exp, iss |-> iss, sub |-> sub]

GoodJwt(s) == Jwt(TRUE, "known", "good", FALSE, "clerk", s)

Jwts ==
  {GoodJwt(s) : s \in Subjects} \cup
  { Jwt(FALSE, "known", "good", FALSE, "clerk", "alice"),
    Jwt(TRUE, "unknown", "good", FALSE, "clerk", "alice"),
    Jwt(TRUE, "down", "good", FALSE, "clerk", "alice"),
    Jwt(TRUE, "known", "bad", FALSE, "clerk", "alice"),
    Jwt(TRUE, "known", "good", TRUE, "clerk", "alice"),
    Jwt(TRUE, "known", "good", FALSE, "other", "alice"),
    Jwt(TRUE, "known", "good", FALSE, "clerk", None),
    Jwt(TRUE, "known", "good", FALSE, "clerk", "") }

\* The literal "Bearer " inside an Authorization header value.
Bearer == [lit |-> "Bearer "]

\* The Authorization header: absent, or a sequence of pieces, each the
\* "Bearer " prefix or a token.
NoHeader == [present |-> FALSE, value |-> <<>>]
Header(v) == [present |-> TRUE, value |-> v]

Headers ==
  {NoHeader, Header(<<>>), Header(<<Bearer>>)} \cup
  {Header(<<Bearer, t>>) : t \in Jwts} \cup
  {Header(<<GoodJwt("bob")>>)}

\* An uploaded file part: absent from the form, or present with a filename,
\* given as the dot-separated parts that remain after secure_filename; <<>>
\* is the empty filename of an unfilled file input.
NoFile == [present |-> FALSE, filename |-> <<>>]
File(n) == [present |-> TRUE, filename |-> n]

Files ==
  {NoFile} \cup
  { File(n) : n \in { <<>>, <<"photo", "jpg">>, <<"clip", "MP4">> } }

Audios ==
  {NoFile} \cup { File(n) : n \in { <<"voice", "m4a">> } }

Captions == {"hello"}

\* Values of datetime.utcnow().isoformat().
Timestamps == {"t0"}

\* Configuration read from the environment.
S3_BUCKET == "bucket"
S3_REGION == "region"
CLERK_BASE_URL == "clerk"

\* --------------------------------------------------------------- helpers
Last(s) == s[Len(s)]

\* str.lower() on the file extensions of the model.
Lower(s) ==
  CASE s = "MP4" -> "mp4"
    [] s = "PNG" -> "png"
    [] s = "MOV" -> "mov"
    [] s = "WEBM" -> "webm"
    [] OTHER -> s

\* FileStorage.__bool__: a file part is truthy iff its filename is not empty.
Truthy(f) == f.present /\ f.filename # <<>>

\* secure_filename(f.filename).split('.')[-1]
ExtOf(f) == Last(f.filename)

VideoExts == {"mp4", "mov", "webm"}

\* A slip the decision rule must notice: the extension compared as written.
StitchDecisionCaseSensitive(audio, ext) == Truthy(audio) /\ ext \notin VideoExts

\* The condition of the synthesis branch: audio and ext.lower() not in [...].
StitchDecision(audio, ext) == Truthy(audio) /\ Lower(ext) \notin VideoExts

\* f"user_uploads/{user_id}/{uuid}.{ext}"
KeyFor(user_id, uuid, ext) == <<"user_uploads/", user_id, "/", uuid, ".", ext>>

\* f"https://{S3_BUCKET}.s3.{S3_REGION}.amazonaws.com/{key}"
UrlFor(key) == <<"https://", S3_BUCKET, ".s3.", S3_REGION, ".amazonaws.com/">> \o key

\* A slip the exact delete must notice: the locator is used as the key.
S3KeyOfWhole(url) == url

\* media_url.split(".amazonaws.com/")[-1]: what follows the last separator,
\* the whole string when there is none.
S3KeyOf(url) ==
  LET seps == {i \in 1..Len(url) : url[i] = ".amazonaws.com/"}
      from == IF seps = {} THEN 1
              ELSE (CHOOSE i \in seps : \A j \in seps : j <= i) + 1
  IN  SubSeq(url, from, Len(url))

\* headers.get("Authorization", "").replace("Bearer ", "")
StripBearer(h) ==
  IF h.present THEN SelectSeq(h.value, LAMBDA x : x # Bearer) ELSE <<>>

\* A slip the unified 401 must notice: the expiry of the token is not checked.
DecodeOkIgnoringExpiry(token) ==
  /\ Len(token) = 1
  /\ token[1].wf
  /\ token[1].kid = "known"
  /\ token[1].sig = "good"
  /\ token[1].iss = CLERK_BASE_URL

\* jwt.decode with the key PyJWKClient resolves: raises unless the text is one
\* well-formed token whose key resolves, signature verifies, which is not
\* expired and whose issuer is CLERK_BASE_URL.
DecodeOk(token) ==
  /\ Len(token) = 1
  /\ token[1].wf
  /\ token[1].kid = "known"
  /\ token[1].sig = "good"
  /\ ~token[1].expired
  /\ token[1].iss = CLERK_BASE_URL

\* verify_token: the subject, or None.
verify_token(h) ==
  LET token == StripBearer(h)
  IN  IF token = <<>> THEN None
      ELSE IF DecodeOk(token) THEN token[1].sub
      ELSE None

\* A slip the 401 check must notice: `user_id is None` lets an empty subject in.
FalsyNoneOnly(user_id) == user_id = None

\* `not user_id`: None and the empty string are both falsy.
Falsy(user_id) == user_id = None \/ user_id = ""


\* ----------------------------------------------------------------- state
VARIABLES
  ENTRIES,     \* the in-memory store: subject -> sequence of entries
  disk,        \* entries.json
  file_writes, \* how many times entries.json was opened for writing
  s3,          \* keys of the objects in the bucket
  pc,          \* where each request slot is in its handler
  req,         \* the request a slot handles (or handled last) and its locals
  resp,        \* the response the slot sent last
  ops,         \* the S3 and ffmpeg calls the slot's request issued, in order
  tmpdir,      \* the TemporaryDirectory a slot holds
  started,     \* number of requests accepted
  auth,        \* the Authorization header of the slot's request; kept only by
               \* the specification that examines verify_token (AuthSpec)
  returned,    \* per subject, the entries uploads returned, in order (those
               \* of the earlier run that the file held at start included)
  removed      \* per subject, the ids whose delete returned success

vars == <<ENTRIES, disk, file_writes, s3, pc, req, resp, ops, tmpdir,
          started, auth, returned, removed>>

NoEntry == [none |-> TRUE]

NoReq ==
  [kind |-> None, seq |-> 0, user_id |-> None, caption |-> "", file |-> NoFile,
   audio |-> NoFile, file_key |-> <<>>, audio_key |-> <<>>, media_url |-> <<>>,
   entry_id |-> None, updated_entries |-> <<>>, deleted_entry |-> NoEntry]

NoResp == [status |-> 0, error |-> None, entry |-> NoEntry, entries |-> <<>>]

\* jsonify({"error": msg}), status
ErrorResp(status, msg) == [NoResp EXCEPT !.status = status, !.error = msg]

NoDir == [held |-> FALSE, files |-> {}]

\* A slip the 404 of a foreign id must notice: one list shared by all subjects.
EntriesGetShared(E, user_id) ==
  (IF "alice" \in DOMAIN E THEN E["alice"] ELSE <<>>)
  \o (IF "bob" \in DOMAIN E THEN E["bob"] ELSE <<>>)

\* ENTRIES.get(user_id, [])
EntriesGet(E, user_id) == IF user_id \in DOMAIN E THEN E[user_id] ELSE <<>>

\* A slip the independence of subjects must notice: the value is stored for
\* every subject that has a collection.
EntriesSetAll(E, user_id, value) == [u \in DOMAIN E \cup {user_id} |-> value]

\* ENTRIES[user_id] = value
EntriesSet(E, user_id, value) ==
  [u \in DOMAIN E \cup {user_id} |-> IF u = user_id THEN value ELSE E[u]]

\* Slips a listing must notice: ENTRIES.setdefault(user_id, []) creates the
\* collection, ENTRIES.pop(user_id, []) takes it away.
EntriesAfterListSetdefault(E, user_id) == EntriesSet(E, user_id, EntriesGet(E, user_id))
EntriesAfterListPop(E, user_id) == [u \in DOMAIN E \ {user_id} |-> E[u]]

\* Line 175: what get_entries leaves of ENTRIES; a .get stores nothing.
EntriesAfterList(E, user_id) == E

\* A slip the round trip must notice: the new entry put first.
EntriesPrepend(E, user_id, entry) ==
  EntriesSet(E, user_id, <<entry>> \o EntriesGet(E, user_id))

\* Slips the lost-update claims must notice: an append that stores a list of
\* its own in place of the collection, and an append that is dropped when the
\* subject already has a collection.
EntriesReplace(E, user_id, entry) == EntriesSet(E, user_id, <<entry>>)
EntriesAppendIfNew(E, user_id, entry) ==
  IF user_id \in DOMAIN E THEN E ELSE EntriesSet(E, user_id, <<entry>>)

\* ENTRIES.setdefault(user_id, []).append(entry)
EntriesAppend(E, user_id, entry) ==
  EntriesSet(E, user_id, Append(EntriesGet(E, user_id), entry))

\* ENTRIES = {}
EmptyMap == [u \in {} |-> <<>>]

MissingFile == [state |-> "missing", data |-> EmptyMap]
CorruptFile == [state |-> "corrupt", data |-> EmptyMap]
SavedFile(E) == [state |-> "ok", data |-> E]

\* load_entries: the mapping the file holds; empty when the file is missing
\* or cannot be parsed.
load_entries(d) == IF d.state = "ok" THEN d.data ELSE EmptyMap

\* Outcomes of save_entries: the dump succeeds; open() raises; the dump raises
\* after open() truncated the file.
SaveOutcomes == {"ok", "open_fails", "dump_fails"}

\* save_entries: the file after saving E; every exception is swallowed.
save_entries(E, d, outcome) ==
  CASE outcome = "ok" -> SavedFile(E)
    [] outcome = "open_fails" -> d
    [] outcome = "dump_fails" -> CorruptFile

WritesAfter(n, outcome) == IF outcome = "open_fails" THEN n ELSE n + 1

\* A slip the delete round trip must notice: the scan keeps every entry.
UpdatedEntriesKeepAll(user_entries, entry_id) == user_entries

\* The scan of delete_entry: the entries kept, and the entry deleted (the last
\* one with the id), NoEntry when none has it.
UpdatedEntries(user_entries, entry_id) ==
  SelectSeq(user_entries, LAMBDA e : e.id # entry_id)

DeletedEntry(user_entries, entry_id) ==
  LET hits == {i \in 1..Len(user_entries) : user_entries[i].id = entry_id}
  IN  IF hits = {} THEN NoEntry
      ELSE user_entries[CHOOSE i \in hits : \A j \in hits : j <= i]

\* uuid.uuid4(): a value no other call returns. The k-th call (k in 0..3) of
\* the seq-th request gets a name of its own.
Uuid(seq, k) == ToString(4 * seq + k)

Call(op, key, ok) == [op |-> op, key |-> key, ok |-> ok]

\* Ids a client may ask to delete: those it has seen, and one that never existed.
KnownIds ==
  UNION {{EntriesGet(ENTRIES, u)[i].id : i \in 1..Len(EntriesGet(ENTRIES, u))}
           : u \in Subjects}
  \cup UNION {removed[u] : u \in Subjects}
  \cup {"no-such-id"}

\* An entry that an upload of an earlier run of the server created (its
\* request has the number 0), and the file that run left behind.
EarlierKey == KeyFor("alice", Uuid(0, 0), "jpg")
EarlierEntry ==
  [id |-> Uuid(0, 3), media_url |-> UrlFor(EarlierKey), caption |-> "hello",
   created_at |-> "t0"]
EarlierFile == SavedFile([u \in {"alice"} |-> <<EarlierEntry>>])

\* What entries.json can be when the server starts.
InitialFiles == {MissingFile, CorruptFile, EarlierFile}

\* The media objects of the entries of a mapping.
MediaKeys(E) ==
  UNION {{S3KeyOf(E[u][i].media_url) : i \in 1..Len(E[u])} : u \in DOMAIN E}

\* The server has started: load_entries() has run on the file it found, and
\* the bucket holds the media of the entries of that file.
Init ==
  /\ disk \in InitialFiles
  /\ ENTRIES = load_entries(disk)
  /\ file_writes = 0
  /\ s3 = MediaKeys(load_entries(disk))
  /\ pc = [p \in Procs |-> "idle"]
  /\ req = [p \in Procs |-> NoReq]
  /\ resp = [p \in Procs |-> NoResp]
  /\ ops = [p \in Procs |-> <<>>]
  /\ tmpdir = [p \in Procs |-> NoDir]
  /\ started = 0
  /\ auth = [p \in Procs |-> NoHeader]
  /\ returned = [u \in Subjects |-> EntriesGet(load_entries(disk), u)]
  /\ removed = [u \in Subjects |-> {}]

\* A slot takes a new request.
Accept(p) ==
  /\ pc[p] = "idle"
  /\ \A q \in Procs : q < p => pc[q] # "idle"
  /\ started < MaxRequests
  /\ started' = started + 1

\* The handler of slot p returns r.
Reply(p, r) ==
  /\ resp' = [resp EXCEPT ![p] = r]
  /\ pc' = [pc EXCEPT ![p] = "idle"]

\* A slip the scratch cleanup must notice: the directory outlives an exception.
RaiseKeepingDir(p) ==
  /\ Reply(p, ErrorResp(500, "Internal Server Error"))
  /\ UNCHANGED tmpdir

\* The handler of slot p raises: Flask answers 500 and the with-block, if
\* entered, removes the scratch directory.
Raise(p) ==
  /\ Reply(p, ErrorResp(500, "Internal Server Error"))
  /\ tmpdir' = [tmpdir EXCEPT ![p] = NoDir]

\* A slip a failed put must notice: the exception of the put is swallowed.
PutRaisesNever(ok) == FALSE

\* s3.upload_fileobj is called outside any try: a failed put raises out of
\* the handler.
PutRaises(ok) == ~ok

\* The bucket after a put of key that succeeded or failed.
BucketAfterPut(bucket, key, ok) == IF ok THEN bucket \cup {key} ELSE bucket

\* ---------------------------------------------------------------- upload
\* Lines 92-110: verify the token, read the form, reject a missing file, build
\* the key of the primary file and choose the branch.
UploadBeginWith(p, h) ==
  /\ Accept(p)
  /\ \E caption \in Captions, file \in Files, audio \in Audios :
       LET user_id == verify_token(h)
           r == [NoReq EXCEPT !.kind = "upload", !.seq = started', !.user_id = user_id]
       IN  /\ ops' = [ops EXCEPT ![p] = <<>>]
           /\ IF Falsy(user_id)
              THEN /\ req' = [req EXCEPT ![p] = r]
                   /\ Reply(p, ErrorResp(401, "Unauthorized"))
              ELSE IF ~Truthy(file)
              THEN /\ req' = [req EXCEPT ![p] = [r EXCEPT !.file = file]]
                   /\ Reply(p, ErrorResp(400, "No file uploaded"))
              ELSE /\ req' = [req EXCEPT ![p] =
                        [r EXCEPT !.caption = caption, !.file = file, !.audio = audio,
                                  !.file_key =
                                    KeyFor(user_id, Uuid(r.seq, 0), ExtOf(file))]]
                   /\ resp' = [resp EXCEPT ![p] = NoResp]
                   /\ pc' = [pc EXCEPT ![p] =
                        IF StitchDecision(audio, ExtOf(file))
                        THEN "put_audio" ELSE "put_direct"]
  /\ UNCHANGED <<ENTRIES, disk, file_writes, s3, tmpdir, returned, removed>>

UploadBegin(p) == \E h \in Headers : UploadBeginWith(p, h) /\ UNCHANGED auth

\* Lines 111-114: store the audio clip under its own key.
UploadPutAudio(p) ==
  /\ pc[p] = "put_audio"
  /\ LET audio_key == KeyFor(req[p].user_id, Uuid(req[p].seq, 1), ExtOf(req[p].audio))
     IN  /\ req' = [req EXCEPT ![p].audio_key = audio_key]
         /\ \E ok \in BOOLEAN :
              /\ ops' = [ops EXCEPT ![p] = Append(@, Call("put", audio_key, ok))]
              /\ s3' = BucketAfterPut(s3, audio_key, ok)
              /\ IF PutRaises(ok)
                 THEN Raise(p)
                 ELSE /\ pc' = [pc EXCEPT ![p] = "save_image"]
                      /\ UNCHANGED <<resp, tmpdir>>
  /\ UNCHANGED <<ENTRIES, disk, file_writes, started, auth, returned, removed>>

\* Lines 117-122: enter the scratch directory and save the image into it.
UploadSaveImage(p) ==
  /\ pc[p] = "save_image"
  /\ \E ok \in BOOLEAN :
       IF ok
       THEN /\ tmpdir' = [tmpdir EXCEPT ![p] = [held |-> TRUE, files |-> {"image"}]]
            /\ pc' = [pc EXCEPT ![p] = "download"]
            /\ UNCHANGED resp
       ELSE Raise(p)
  /\ UNCHANGED <<ENTRIES, disk, file_writes, s3, req, ops, started,
                 auth, returned, removed>>

\* Line 123: fetch the stored audio clip back into the scratch directory.
UploadDownloadAudio(p) ==
  /\ pc[p] = "download"
  /\ \E ok \in BOOLEAN :
       LET got == ok /\ req[p].audio_key \in s3
       IN  /\ ops' = [ops EXCEPT ![p] = Append(@, Call("get", req[p].audio_key, got))]
           /\ IF got
              THEN /\ tmpdir' = [tmpdir EXCEPT ![p].files = @ \cup {"audio"}]
                   /\ pc' = [pc EXCEPT ![p] = "ffmpeg"]
                   /\ UNCHANGED resp
              ELSE Raise(p)
  /\ UNCHANGED <<ENTRIES, disk, file_writes, s3, req, started,
                 auth, returned, removed>>

\* Outcomes of run(ffmpeg_cmd): exit status 0, a non-zero exit status, or the
\* call itself raising (no ffmpeg binary).
FfmpegOutcomes == {"zero", "nonzero", "raises"}

\* A slip the failed synthesis must notice: the exit status is not looked at.
FfmpegFailedNever(rc) == FALSE

\* Line 140: result.returncode != 0
FfmpegFailed(rc) == rc # "zero"

\* Lines 125-142: run ffmpeg; a non-zero exit status ends the request.
UploadRunFfmpeg(p) ==
  /\ pc[p] = "ffmpeg"
  /\ \E rc \in FfmpegOutcomes :
       /\ ops' = [ops EXCEPT ![p] = Append(@, Call("ffmpeg", <<>>, rc = "zero"))]
       /\ IF rc = "raises"
          THEN Raise(p)
          ELSE IF FfmpegFailed(rc)
          THEN /\ Reply(p, ErrorResp(500, "Failed to stitch audio and image"))
               /\ tmpdir' = [tmpdir EXCEPT ![p] = NoDir]
          ELSE /\ tmpdir' = [tmpdir EXCEPT ![p].files = @ \cup {"output"}]
               /\ pc' = [pc EXCEPT ![p] = "put_video"]
               /\ UNCHANGED resp
  /\ UNCHANGED <<ENTRIES, disk, file_writes, s3, req, started,
                 auth, returned, removed>>

\* A slip the synthesis path must notice: the entry points at the audio clip.
StitchedMediaUrlOfAudio(audio_key, stitched_key) == UrlFor(audio_key)

\* Line 148: the media_url of a stitched entry.
StitchedMediaUrl(audio_key, stitched_key) == UrlFor(stitched_key)

\* Lines 144-149: store the stitched video and leave the scratch directory.
UploadPutVideo(p) ==
  /\ pc[p] = "put_video"
  /\ LET stitched_key == KeyFor(req[p].user_id, Uuid(req[p].seq, 2), "mp4")
     IN  /\ \E ok \in BOOLEAN :
              /\ ops' = [ops EXCEPT ![p] = Append(@, Call("put", stitched_key, ok))]
              /\ s3' = BucketAfterPut(s3, stitched_key, ok)
              /\ IF PutRaises(ok)
                 THEN /\ Raise(p)
                      /\ UNCHANGED req
                 ELSE /\ req' = [req EXCEPT ![p].media_url =
                                StitchedMediaUrl(req[p].audio_key, stitched_key)]
                      /\ tmpdir' = [tmpdir EXCEPT ![p] = NoDir]
                      /\ pc' = [pc EXCEPT ![p] = "save_entry"]
                      /\ UNCHANGED resp
  /\ UNCHANGED <<ENTRIES, disk, file_writes, started, auth, returned, removed>>

\* Lines 151-155: store the primary file as it is.
UploadPutDirect(p) ==
  /\ pc[p] = "put_direct"
  /\ \E ok \in BOOLEAN :
       /\ ops' = [ops EXCEPT ![p] = Append(@, Call("put", req[p].file_key, ok))]
       /\ s3' = BucketAfterPut(s3, req[p].file_key, ok)
       /\ IF PutRaises(ok)
          THEN /\ Raise(p)
               /\ UNCHANGED req
          ELSE /\ req' = [req EXCEPT ![p].media_url = UrlFor(req[p].file_key)]
               /\ pc' = [pc EXCEPT ![p] = "save_entry"]
               /\ UNCHANGED <<resp, tmpdir>>
  /\ UNCHANGED <<ENTRIES, disk, file_writes, started, auth, returned, removed>>

\* Lines 157-168: build the entry, append it, save the file, return the entry.
UploadSaveEntry(p) ==
  /\ pc[p] = "save_entry"
  /\ \E now \in Timestamps, outcome \in SaveOutcomes :
       LET entry == [id |-> Uuid(req[p].seq, 3), media_url |-> req[p].media_url,
                     caption |-> req[p].caption, created_at |-> now]
           user_id == req[p].user_id
       IN  /\ ENTRIES' = EntriesAppend(ENTRIES, user_id, entry)
           /\ disk' = save_entries(ENTRIES', disk, outcome)
           /\ file_writes' = WritesAfter(file_writes, outcome)
           /\ Reply(p, [NoResp EXCEPT !.status = 200, !.entry = entry])
           /\ returned' = [returned EXCEPT ![user_id] = Append(@, entry)]
  /\ UNCHANGED <<s3, req, ops, tmpdir, started, auth, removed>>

\* --------------------------------------------------------------- entries
\* Lines 170-175: get_entries, the whole handler.
GetEntriesWith(p, h) ==
  /\ Accept(p)
  /\   LET user_id == verify_token(h)
       IN  /\ req' = [req EXCEPT ![p] =
                        [NoReq EXCEPT !.kind = "list", !.seq = started',
                                      !.user_id = user_id]]
           /\ IF Falsy(user_id)
              THEN /\ Reply(p, ErrorResp(401, "Unauthorized"))
                   /\ UNCHANGED ENTRIES
              ELSE /\ Reply(p, [NoResp EXCEPT !.status = 200,
                                              !.entries = EntriesGet(ENTRIES, user_id)])
                   /\ ENTRIES' = EntriesAfterList(ENTRIES, user_id)
  /\ ops' = [ops EXCEPT ![p] = <<>>]
  /\ UNCHANGED <<disk, file_writes, s3, tmpdir, returned, removed>>

GetEntries(p) == \E h \in Headers : GetEntriesWith(p, h) /\ UNCHANGED auth

\* ---------------------------------------------------------------- delete
\* Lines 177-194: verify the token and scan the caller's entries for the id.
DeleteBeginWith(p, h) ==
  /\ Accept(p)
  /\ \E entry_id \in KnownIds :
       LET user_id == verify_token(h)
           user_entries == EntriesGet(ENTRIES, user_id)
           r == [NoReq EXCEPT !.kind = "delete", !.seq = started', !.user_id = user_id,
                              !.entry_id = entry_id]
       IN  IF Falsy(user_id)
           THEN /\ req' = [req EXCEPT ![p] = r]
                /\ Reply(p, ErrorResp(401, "Unauthorized"))
           ELSE IF DeletedEntry(user_entries, entry_id) = NoEntry
           THEN /\ req' = [req EXCEPT ![p] = r]
                /\ Reply(p, ErrorResp(404, "Entry not found"))
           ELSE /\ req' = [req EXCEPT ![p] =
                     [r EXCEPT !.updated_entries = UpdatedEntries(user_entries, entry_id),
                               !.deleted_entry = DeletedEntry(user_entries, entry_id)]]
                /\ resp' = [resp EXCEPT ![p] = NoResp]
                /\ pc' = [pc EXCEPT ![p] = "s3_delete"]
  /\ ops' = [ops EXCEPT ![p] = <<>>]
  /\ UNCHANGED <<ENTRIES, disk, file_writes, s3, tmpdir, returned, removed>>

DeleteBegin(p) == \E h \in Headers : DeleteBeginWith(p, h) /\ UNCHANGED auth

\* Lines 196-202: delete the media object; a failure is printed and dropped.
DeleteMedia(p) ==
  /\ pc[p] = "s3_delete"
  /\ LET s3_key == S3KeyOf(req[p].deleted_entry.media_url)
     IN  \E ok \in BOOLEAN :
           /\ ops' = [ops EXCEPT ![p] = Append(@, Call("delete", s3_key, ok))]
           /\ s3' = IF ok THEN s3 \ {s3_key} ELSE s3
  /\ pc' = [pc EXCEPT ![p] = "write_back"]
  /\ UNCHANGED <<ENTRIES, disk, file_writes, req, resp, tmpdir, started,
                 auth, returned, removed>>

\* Lines 204-207: store the kept entries, save the file, report success.
DeleteWriteBack(p) ==
  /\ pc[p] = "write_back"
  /\ \E outcome \in SaveOutcomes :
       /\ ENTRIES' = EntriesSet(ENTRIES, req[p].user_id, req[p].updated_entries)
       /\ disk' = save_entries(ENTRIES', disk, outcome)
       /\ file_writes' = WritesAfter(file_writes, outcome)
  /\ Reply(p, [NoResp EXCEPT !.status = 200])
  /\ removed' = [removed EXCEPT ![req[p].user_id] = @ \cup {req[p].entry_id}]
  /\ UNCHANGED <<s3, req, ops, tmpdir, started, auth, returned>>

\* ------------------------------------------------------- specifications
\* No request in flight.
Quiet == \A q \in Procs : pc[q] = "idle"

\* Requests are served concurrently, one thread each.
Next ==
  \E p \in Procs :
    \/ UploadBegin(p)
    \/ UploadPutAudio(p)
    \/ UploadSaveImage(p)
    \/ UploadDownloadAudio(p)
    \/ UploadRunFfmpeg(p)
    \/ UploadPutVideo(p)
    \/ UploadPutDirect(p)
    \/ UploadSaveEntry(p)
    \/ GetEntries(p)
    \/ DeleteBegin(p)
    \/ DeleteMedia(p)
    \/ DeleteWriteBack(p)

Spec == Init /\ [][Next]_vars

\* Requests are served one after another: a request is taken only when no
\* other is in flight.
SeqNext ==
  \E p \in Procs :
    \/ Quiet /\ UploadBegin(p)
    \/ UploadPutAudio(p)
    \/ UploadSaveImage(p)
    \/ UploadDownloadAudio(p)
    \/ UploadRunFfmpeg(p)
    \/ UploadPutVideo(p)
    \/ UploadPutDirect(p)
    \/ UploadSaveEntry(p)
    \/ Quiet /\ GetEntries(p)
    \/ Quiet /\ DeleteBegin(p)
    \/ DeleteMedia(p)
    \/ DeleteWriteBack(p)

SeqSpec == Init /\ [][SeqNext]_vars

\* A step of the request that slot p is handling.
Proceed(p) ==
  \/ UploadPutAudio(p)
  \/ UploadSaveImage(p)
  \/ UploadDownloadAudio(p)
  \/ UploadRunFfmpeg(p)
  \/ UploadPutVideo(p)
  \/ UploadPutDirect(p)
  \/ UploadSaveEntry(p)
  \/ DeleteMedia(p)
  \/ DeleteWriteBack(p)

\* Concurrent requests, each of whose threads is scheduled again until its
\* handler returns; whether further requests arrive is left open.
FairSpec == Spec /\ \A p \in Procs : WF_vars(Proceed(p))

\* A request that keeps its Authorization header for inspection.
UploadBeginAuth(p) ==
  \E h \in Headers : UploadBeginWith(p, h) /\ auth' = [auth EXCEPT ![p] = h]
GetEntriesAuth(p) ==
  \E h \in Headers : GetEntriesWith(p, h) /\ auth' = [auth EXCEPT ![p] = h]
DeleteBeginAuth(p) ==
  \E h \in Headers : DeleteBeginWith(p, h) /\ auth' = [auth EXCEPT ![p] = h]

\* Requests served one after another, each keeping its header.
AuthNext ==
  \E p \in Procs :
    \/ Quiet /\ UploadBeginAuth(p)
    \/ UploadPutAudio(p)
    \/ UploadSaveImage(p)
    \/ UploadDownloadAudio(p)
    \/ UploadRunFfmpeg(p)
    \/ UploadPutVideo(p)
    \/ UploadPutDirect(p)
    \/ UploadSaveEntry(p)
    \/ Quiet /\ GetEntriesAuth(p)
    \/ Quiet /\ DeleteBeginAuth(p)
    \/ DeleteMedia(p)
    \/ DeleteWriteBack(p)

AuthSpec == Init /\ [][AuthNext]_vars


\* ---------------------------------------------------------------- claims
\* The collection of a subject as a list shows it; empty when it has none.
Collection(u) == IF u \in DOMAIN ENTRIES THEN ENTRIES[u] ELSE <<>>

\* The ids of a sequence of entries.
Ids(entries) == {entries[i].id : i \in 1..Len(entries)}

\* Slot p shows the response of a finished request of the given kind.
Finished(p, kind) == pc[p] = "idle" /\ req[p].kind = kind

\* Slot p takes a request of the given kind in this step.
Takes(p, kind) ==
  /\ pc[p] = "idle"
  /\ started' = started + 1
  /\ req'[p].seq = started'
  /\ req'[p].kind = kind

\* C1. Append-then-list round trip: with requests served one after another,
\* a list by a subject none of whose entries was deleted returns exactly the
\* entries its successful uploads returned (the uploads of the earlier run
\* that the file held at start included), in the order of the uploads.
C1_AppendThenList ==
  \A p \in Procs :
    (/\ Finished(p, "list")
     /\ resp[p].status = 200
     /\ removed[req[p].user_id] = {})
    => resp[p].entries = returned[req[p].user_id]

\* A list that returned the two entries of two uploads, the later of them an
\* upload of this run.
C1_Witness ==
  \E p \in Procs :
    /\ Finished(p, "list")
    /\ resp[p].status = 200
    /\ removed[req[p].user_id] = {}
    /\ Len(resp[p].entries) = 2
    /\ resp[p].entries[1].id # resp[p].entries[2].id
    /\ resp[p].entries[2].id # Uuid(0, 3)

\* C2. Delete round trip: with requests served one after another, once a
\* delete of an id returned success to a subject, no list by that subject
\* contains an entry with that id, and every later delete of that id by that
\* subject returns 404.
C2_Gone ==
  /\ \A u \in Subjects : Ids(Collection(u)) \cap removed[u] = {}
  /\ \A p \in Procs :
       (Finished(p, "list") /\ resp[p].status = 200)
       => Ids(resp[p].entries) \cap removed[req[p].user_id] = {}

C2_SecondDelete ==
  \A p \in Procs :
    (/\ Takes(p, "delete")
     /\ req'[p].user_id \in Subjects
     /\ req'[p].entry_id \in removed[req'[p].user_id])
    => (pc'[p] = "idle" /\ resp'[p].status = 404)

C2_DeleteRoundTrip == []C2_Gone /\ [][C2_SecondDelete]_vars

\* A second delete of an id already deleted with success was answered 404.
C2_Witness ==
  \E p \in Procs :
    /\ Finished(p, "delete")
    /\ req[p].user_id \in Subjects
    /\ req[p].entry_id \in removed[req[p].user_id]
    /\ resp[p].status = 404


\* A file part that carries a file: it is in the form and has a name.
Supplied(f) == f # NoFile /\ f # File(<<>>)

\* The slot's request changed nothing outside the slot in this step.
NoEffect ==
  /\ ENTRIES' = ENTRIES
  /\ disk' = disk
  /\ file_writes' = file_writes
  /\ s3' = s3

\* C3. Verification and validation failures have no side effects: a request
\* whose token yields no subject ends with 401, an authenticated upload
\* without a primary file ends with 400, and such a request issues no S3 call
\* and changes neither a collection, nor the file, nor the bucket.
C3_Rejected ==
  \A p \in Procs :
    /\ pc[p] # "idle" =>
         /\ req[p].user_id \in Subjects
         /\ req[p].kind = "upload" => Supplied(req[p].file)
    /\ (pc[p] = "idle" /\ req[p].kind # None) =>
         /\ req[p].user_id \notin Subjects =>
              (resp[p].status = 401 /\ ops[p] = <<>>)
         /\ (/\ req[p].kind = "upload"
             /\ req[p].user_id \in Subjects
             /\ ~Supplied(req[p].file)) =>
              (resp[p].status = 400 /\ ops[p] = <<>>)

C3_Untouched ==
  \A p \in Procs :
    (/\ pc[p] = "idle"
     /\ started' = started + 1
     /\ req'[p].seq = started'
     /\ resp'[p].status \in {400, 401})
    => (NoEffect /\ ops'[p] = <<>> /\ tmpdir' = tmpdir)

C3_NoSideEffects == []C3_Rejected /\ [][C3_Untouched]_vars

\* An authenticated upload without a file was refused while the subject has a
\* collection, a file and a media object that it could have changed.
C3_Witness ==
  \E p \in Procs :
    /\ Finished(p, "upload")
    /\ resp[p].status = 400
    /\ req[p].user_id \in Subjects
    /\ Collection(req[p].user_id) # <<>>
    /\ disk = EarlierFile
    /\ s3 # {}

\* The calls of a synthesis that ffmpeg ended with a failure.
FailedStitchOps(audio_key) ==
  << Call("put", audio_key, TRUE), Call("get", audio_key, TRUE),
     Call("ffmpeg", <<>>, FALSE) >>

\* The entries of every collection, and the entries every upload returned.
AllIds ==
  UNION {Ids(Collection(u)) : u \in Subjects}
  \cup UNION {Ids(returned[u]) : u \in Subjects}

\* C4. Failed synthesis creates no entry: once ffmpeg failed the request is
\* over with a 500, it issued the audio put, the audio fetch and the ffmpeg
\* run and nothing else (no video put, no delete), the audio object stays in
\* the bucket, the video is not stored, and no entry of the request exists;
\* the steps of the synthesis path change no collection and not the file.
C4_Failed ==
  \A p \in Procs :
    (\E i \in 1..Len(ops[p]) : ops[p][i].op = "ffmpeg" /\ ~ops[p][i].ok) =>
      /\ pc[p] = "idle"
      /\ resp[p].status = 500
      /\ ops[p] = FailedStitchOps(req[p].audio_key)
      /\ req[p].audio_key \in s3
      /\ KeyFor(req[p].user_id, Uuid(req[p].seq, 2), "mp4") \notin s3
      /\ Uuid(req[p].seq, 3) \notin AllIds

C4_Unchanged ==
  \A p \in Procs :
    (/\ pc[p] \in {"put_audio", "save_image", "download", "ffmpeg", "put_video"}
     /\ pc'[p] # pc[p])
    => /\ ENTRIES' = ENTRIES
       /\ disk' = disk
       /\ file_writes' = file_writes
       /\ pc[p] = "ffmpeg" => s3' = s3

C4_FailedSynthesis == []C4_Failed /\ [][C4_Unchanged]_vars

\* ffmpeg exited non-zero for a subject that already has an entry.
C4_Witness ==
  \E p \in Procs :
    /\ Finished(p, "upload")
    /\ resp[p].error = "Failed to stitch audio and image"
    /\ req[p].audio_key \in s3
    /\ Collection(req[p].user_id) # <<>>

\* The extensions of the video allow-list in any letter case.
VideoExtAnyCase == {"mp4", "MP4", "Mp4", "mov", "MOV", "Mov", "webm", "WEBM", "Webm"}

\* The rule of the direct path, on the inputs of the request.
DirectByRule(p) ==
  ~Supplied(req[p].audio) \/ ExtOf(req[p].file) \in VideoExtAnyCase

\* The request of slot p is on the direct path, or on the synthesis path.
OnDirectPath(p) ==
  \/ pc[p] = "put_direct"
  \/ Len(ops[p]) >= 1 /\ ops[p][1].key = req[p].file_key
OnStitchPath(p) ==
  \/ pc[p] = "put_audio"
  \/ Len(ops[p]) >= 1 /\ ops[p][1].key = req[p].audio_key

\* An authenticated upload with a primary file.
ValidUpload(p) ==
  /\ req[p].kind = "upload"
  /\ req[p].user_id \in Subjects
  /\ Supplied(req[p].file)

\* C5. Direct-path decision rule: a valid upload is on the direct path exactly
\* when no audio is supplied or the extension is mp4, mov or webm in any case;
\* on the direct path the only call is one put of the primary file at its own
\* key under the subject's namespace (no ffmpeg, no audio put), and the entry
\* returned has the locator of that object as media_url.
C5_DirectPath ==
  \A p \in Procs :
    ValidUpload(p) =>
      /\ DirectByRule(p) <=> OnDirectPath(p)
      /\ ~DirectByRule(p) <=> OnStitchPath(p)
      /\ OnDirectPath(p) =>
           /\ req[p].file_key[1] = "user_uploads/"
           /\ req[p].file_key[2] = req[p].user_id
           /\ req[p].file_key[4] = Uuid(req[p].seq, 0)
           /\ pc[p] = "put_direct" => (ops[p] = <<>> /\ req[p].file_key \notin s3)
           /\ pc[p] # "put_direct" =>
                \E ok \in BOOLEAN :
                  /\ ops[p] = <<Call("put", req[p].file_key, ok)>>
                  /\ ok <=> pc[p] = "save_entry" \/ resp[p].status = 200
           /\ (pc[p] = "idle" /\ resp[p].status = 200) =>
                resp[p].entry.media_url = UrlFor(req[p].file_key)

\* An upload of a video with an upper-case extension and an audio clip went
\* the direct path and returned its entry.
C5_Witness ==
  \E p \in Procs :
    /\ Finished(p, "upload")
    /\ resp[p].status = 200
    /\ Supplied(req[p].audio)
    /\ ExtOf(req[p].file) = "MP4"
    /\ OnDirectPath(p)

\* The calls of a synthesis that succeeded.
StitchOps(audio_key, stitched_key) ==
  << Call("put", audio_key, TRUE), Call("get", audio_key, TRUE),
     Call("ffmpeg", <<>>, TRUE), Call("put", stitched_key, TRUE) >>

IsPrefix(s, t) == Len(s) <= Len(t) /\ SubSeq(t, 1, Len(s)) = s

\* C6. Successful synthesis path: an upload on the synthesis path that returns
\* its entry issued exactly the audio put, the audio fetch, the ffmpeg run and
\* the video put, in this order and all successful; the primary file is never
\* put; the media_url is the locator of the video and not of the audio. While
\* the upload runs, its successful calls are a prefix of that sequence.
C6_Synthesis ==
  \A p \in Procs :
    (ValidUpload(p) /\ OnStitchPath(p)) =>
      LET stitched_key == KeyFor(req[p].user_id, Uuid(req[p].seq, 2), "mp4")
          good == SelectSeq(ops[p], LAMBDA c : c.ok)
      IN  /\ IsPrefix(good, StitchOps(req[p].audio_key, stitched_key))
          /\ req[p].file_key \notin s3
          /\ stitched_key # req[p].audio_key
          /\ (pc[p] = "idle" /\ resp[p].status = 200) =>
               /\ ops[p] = StitchOps(req[p].audio_key, stitched_key)
               /\ resp[p].entry.media_url = UrlFor(stitched_key)
               /\ resp[p].entry.media_url # UrlFor(req[p].audio_key)
          /\ pc[p] = "save_entry" => ops[p] = StitchOps(req[p].audio_key, stitched_key)

\* A synthesis returned its entry.
C6_Witness ==
  \E p \in Procs :
    /\ Finished(p, "upload")
    /\ resp[p].status = 200
    /\ OnStitchPath(p)
    /\ Len(ops[p]) = 4


\* The ids of the entries the file holds for a subject.
PersistedIds(u) == Ids(EntriesGet(load_entries(disk), u))

\* Slot p shows the response of a delete that found its entry.
FoundDelete(p) == Finished(p, "delete") /\ Len(ops[p]) = 1

\* C7. Best-effort media delete: with requests served one after another, a
\* delete that found its entry returned success and the entry is gone from the
\* collection and from the persisted file, whether the S3 delete succeeded or
\* failed.
C7_BestEffortDelete ==
  \A p \in Procs :
    FoundDelete(p) =>
      /\ resp[p].status = 200
      /\ ops[p][1].op = "delete"
      /\ req[p].entry_id \notin Ids(Collection(req[p].user_id))
      /\ req[p].entry_id \notin PersistedIds(req[p].user_id)

\* The part of C7 that the code keeps: success and the removal from the
\* collection, whatever the S3 delete did; the file holds the entry no longer
\* when it was written.
C7_InMemory ==
  \A p \in Procs :
    FoundDelete(p) =>
      /\ resp[p].status = 200
      /\ ops[p][1].op = "delete"
      /\ req[p].entry_id \notin Ids(Collection(req[p].user_id))
      /\ disk = SavedFile(ENTRIES) => req[p].entry_id \notin PersistedIds(req[p].user_id)

\* A delete whose S3 call failed returned success.
C7_Witness ==
  \E p \in Procs :
    /\ FoundDelete(p)
    /\ ~ops[p][1].ok
    /\ resp[p].status = 200
    /\ ops[p][1].key \in s3

\* C8. Delete of an id that is not in the caller's collection (an id of
\* another subject's collection, or a caller without a collection, included):
\* the request ends with 404, issues no S3 call, changes no collection, and
\* writes neither the file nor the bucket.
C8_Step ==
  \A p \in Procs :
    (/\ Takes(p, "delete")
     /\ req'[p].user_id \in Subjects
     /\ req'[p].entry_id \notin Ids(Collection(req'[p].user_id)))
    => /\ pc'[p] = "idle"
       /\ resp'[p].status = 404
       /\ ops'[p] = <<>>
       /\ NoEffect

C8_ForeignDelete == [][C8_Step]_vars

\* A subject without a collection asked to delete an entry of another
\* subject's collection and got 404.
C8_Witness ==
  \E p \in Procs :
    /\ Finished(p, "delete")
    /\ resp[p].status = 404
    /\ req[p].user_id \in Subjects
    /\ req[p].user_id \notin DOMAIN ENTRIES
    /\ \E u \in Subjects \ {req[p].user_id} :
         req[p].entry_id \in Ids(Collection(u))

\* C9. A list by a subject with no prior upload returns the empty sequence
\* with status 200 and creates no collection.
C9_Step ==
  \A p \in Procs :
    (/\ Takes(p, "list")
     /\ req'[p].user_id \in Subjects
     /\ returned[req'[p].user_id] = <<>>)
    => /\ pc'[p] = "idle"
       /\ resp'[p].status = 200
       /\ resp'[p].error = None
       /\ resp'[p].entries = <<>>
       /\ ENTRIES' = ENTRIES

C9_EmptyList == [][C9_Step]_vars

\* A subject that never uploaded listed and got the empty sequence, with no
\* collection of its own, while another subject has entries.
C9_Witness ==
  \E p \in Procs :
    /\ Finished(p, "list")
    /\ resp[p].status = 200
    /\ resp[p].entries = <<>>
    /\ returned[req[p].user_id] = <<>>
    /\ req[p].user_id \notin DOMAIN ENTRIES
    /\ ENTRIES # EmptyMap

\* C10. Idempotent listing: a list changes no collection, not the file and not
\* the bucket; and with requests served one after another, a list that
\* directly follows a list by the same subject returns the same response.
C10_Step ==
  \A p \in Procs :
    Takes(p, "list") =>
      /\ NoEffect
      /\ ops'[p] = <<>>
      /\ tmpdir' = tmpdir
      /\ (/\ req[p].kind = "list"
          /\ req[p].user_id = req'[p].user_id
          /\ resp[p].status = 200)
         => resp'[p] = resp[p]

C10_IdempotentList == [][C10_Step]_vars

\* A list returned a collection that holds an entry.
C10_Witness ==
  \E p \in Procs :
    /\ Finished(p, "list")
    /\ resp[p].status = 200
    /\ resp[p].entries # <<>>
    /\ resp[p].entries = Collection(req[p].user_id)


\* What ENTRIES holds for a subject: whether it has a collection, and which.
Held(E, u) == IF u \in DOMAIN E THEN <<TRUE, E[u]>> ELSE <<FALSE, <<>>>>

\* Slot p ends, in this step, an upload or a delete of subject u by writing
\* the store.
WritesFor(p, u) ==
  /\ pc[p] \in {"save_entry", "write_back"}
  /\ pc'[p] = "idle"
  /\ req[p].user_id = u

\* C11. Concurrent requests for different subjects are independent: under
\* every interleaving, what the store holds for a subject changes only in the
\* last step of an upload or delete of that same subject; and every entry of a
\* subject's collection is an entry one of its own uploads returned, with its
\* media under the subject's own namespace.
C11_Own ==
  \A u \in Subjects :
    \A i \in 1..Len(Collection(u)) :
      /\ \E j \in 1..Len(returned[u]) : Collection(u)[i] = returned[u][j]
      /\ S3KeyOf(Collection(u)[i].media_url)[2] = u

C11_Step ==
  \A u \in Subjects :
    Held(ENTRIES', u) # Held(ENTRIES, u) => \E p \in Procs : WritesFor(p, u)

C11_Independent == []C11_Own /\ [][C11_Step]_vars

\* A delete by one subject and an upload by another ran concurrently and both
\* succeeded; the uploader's collection is exactly its own entry.
C11_Witness ==
  \E p, q \in Procs :
    /\ Finished(p, "delete") /\ resp[p].status = 200
    /\ Finished(q, "upload") /\ resp[q].status = 200
    /\ req[p].user_id # req[q].user_id
    /\ Collection(req[q].user_id) = <<resp[q].entry>>
    /\ Collection(req[p].user_id) = <<>>


\* Slot p returns, in this step, the success of an upload or of a delete.
Succeeds(p) ==
  /\ pc[p] \in {"save_entry", "write_back"}
  /\ pc'[p] = "idle"
  /\ resp'[p].status = 200

\* C12. Shared-file mirror: after every upload or delete that returns success
\* the file holds the in-memory mapping, so that reloading the file gives back
\* exactly the collections in memory.
C12_Step ==
  \A p \in Procs :
    Succeeds(p) => (disk' = SavedFile(ENTRIES') /\ load_entries(disk') = ENTRIES')

C12_FileMirror == [][C12_Step]_vars

\* The part of C12 that the code keeps: a success that wrote a well-formed
\* file wrote the in-memory mapping.
C12_WrittenStep ==
  \A p \in Procs :
    (Succeeds(p) /\ file_writes' # file_writes /\ disk'.state = "ok")
    => load_entries(disk') = ENTRIES'

C12_Written == [][C12_WrittenStep]_vars


\* The token pieces of a header: what is not the "Bearer " prefix.
Tokens(h) == {h.value[i] : i \in {j \in 1..Len(h.value) : h.value[j] # Bearer}}

\* The identity-verification failures: the header is absent, or empty once the
\* prefix is stripped, or its token is malformed, has an unresolvable key (no
\* such key, or discovery down), a wrong signature, is expired, names another
\* issuer, or carries no subject claim.
VerificationFails(h) ==
  \/ ~h.present
  \/ Tokens(h) = {}
  \/ \E t \in Tokens(h) :
       \/ ~t.wf
       \/ t.kid \in {"unknown", "down"}
       \/ t.sig = "bad"
       \/ t.expired
       \/ t.iss # CLERK_BASE_URL
       \/ t.sub = None

\* The one response of every such failure.
Unauthorized == [status |-> 401, error |-> "Unauthorized", entry |-> NoEntry, entries |-> <<>>]

\* C13. Unified Unauthorized: for every identity-verification failure,
\* verify_token returns no subject and the request, be it an upload, a list or
\* a delete, is answered at once with the one 401 response, the same for every
\* kind of failure, without a call to S3; no request with such a header is
\* ever in flight.
C13_Unauthorized ==
  \A p \in Procs :
    (req[p].kind # None /\ VerificationFails(auth[p])) =>
      /\ verify_token(auth[p]) = None
      /\ req[p].user_id = None
      /\ pc[p] = "idle"
      /\ resp[p] = Unauthorized
      /\ ops[p] = <<>>

\* A delete of an entry that exists, sent with an expired token of its owner,
\* was answered 401 and the entry is still there.
C13_Witness ==
  \E p \in Procs :
    /\ Finished(p, "delete")
    /\ auth[p] = Header(<<Bearer, Jwt(TRUE, "known", "good", TRUE, "clerk", "alice")>>)
    /\ resp[p].status = 401
    /\ req[p].entry_id \in Ids(Collection("alice"))


\* The request of slot p is a delete that has called S3.
MediaDeleteAttempted(p) == req[p].kind = "delete" /\ ops[p] # <<>>

\* C14. Delete ordering: when the S3 delete of an entry's media is attempted
\* the entry has already been removed from the subject's collection; hence no
\* media object has been deleted while its entry is still in the collection a
\* list returns.
C14_DeleteOrdering ==
  \A p \in Procs :
    MediaDeleteAttempted(p) =>
      req[p].entry_id \notin Ids(Collection(req[p].user_id))

\* What the code does instead: the collection is written only after the S3
\* delete was attempted, so until the write-back the entry is still listed.
C14_MediaFirst ==
  \A p \in Procs :
    /\ pc[p] = "s3_delete" => ops[p] = <<>>
    /\ pc[p] = "write_back" =>
         /\ MediaDeleteAttempted(p)
         /\ req[p].deleted_entry.id = req[p].entry_id
    /\ (Finished(p, "delete") /\ resp[p].status = 200) => MediaDeleteAttempted(p)

\* A list returned an entry while a delete had already removed its media
\* object from the bucket.
C14_Dangling ==
  \E p, q \in Procs :
    /\ pc[p] = "write_back" /\ ops[p][1].ok
    /\ Finished(q, "list") /\ resp[q].status = 200
    /\ \E i \in 1..Len(resp[q].entries) :
         /\ resp[q].entries[i].id = req[p].entry_id
         /\ S3KeyOf(resp[q].entries[i].media_url) \notin s3
    /\ req[p].entry_id \in Ids(Collection(req[p].user_id))


\* C15. Lost update on concurrent append and delete: an entry that an upload
\* returned leaves its subject's collection only in the write-back of a delete
\* by that subject, which replaces the whole collection by the entries the
\* delete kept when it scanned; so an upload that appends between the scan
\* and the write-back of a delete of another entry is lost although both
\* requests return success (the state C15_Witness, which is reachable).
C15_OnlyByDelete ==
  \A u \in Subjects :
    \A j \in 1..Len(returned[u]) :
      returned[u][j].id \notin Ids(Collection(u)) => removed[u] # {}

C15_Step ==
  \A u \in Subjects :
    Ids(Collection(u)) \ Ids(Collection(u)') # {} =>
      \E p \in Procs :
        /\ pc[p] = "write_back" /\ pc'[p] = "idle"
        /\ req[p].user_id = u
        /\ resp'[p].status = 200
        /\ Collection(u)' = req[p].updated_entries

C15_LostUpdate == []C15_OnlyByDelete /\ [][C15_Step]_vars

\* An upload and a delete of another entry by the same subject both returned
\* success, and the uploaded entry, which nobody asked to delete, is not in
\* the collection.
C15_Witness ==
  \E p, q \in Procs :
    /\ Finished(p, "upload") /\ resp[p].status = 200
    /\ Finished(q, "delete") /\ resp[q].status = 200
    /\ req[p].user_id = req[q].user_id
    /\ req[q].entry_id # resp[p].entry.id
    /\ resp[p].entry.id \notin removed[req[p].user_id]
    /\ resp[p].entry.id \notin Ids(Collection(req[p].user_id))
    /\ resp[p].entry.id \notin Ids(req[q].updated_entries)


\* Two uploads of one subject, one in each slot, both returned success.
TwoUploadsDone(u) ==
  \A p \in Procs :
    Finished(p, "upload") /\ resp[p].status = 200 /\ req[p].user_id = u

\* Two uploads of one subject are both about to append their entry.
TwoUploadsAppending ==
  \E u \in Subjects : \A p \in Procs : pc[p] = "save_entry" /\ req[p].user_id = u

\* Both uploads returned success and one of the two new entries is missing
\* from the collection.
OneOfTwoLost ==
  \E u \in Subjects :
    /\ TwoUploadsDone(u)
    /\ \E p \in Procs : resp[p].entry.id \notin Ids(Collection(u))

PutFailed(p) ==
  /\ req[p].kind = "upload"
  /\ \E i \in 1..Len(ops[p]) : ops[p][i].op = "put" /\ ~ops[p][i].ok

\* C17. Store failure on upload creates no entry: an upload whose put failed
\* has ended with an error, has no entry in any collection and stored no
\* object under the key of that put; the step in which the put fails changes
\* no collection and does not write the file; and on either path the step that
\* appends an entry follows, as the request's last call, a successful put of
\* the object that the entry's media_url names.
C17_Failed ==
  \A p \in Procs :
    PutFailed(p) =>
      /\ pc[p] = "idle"
      /\ resp[p].status = 500
      /\ resp[p].entry = NoEntry
      /\ Uuid(req[p].seq, 3) \notin AllIds
      /\ Last(ops[p]).key \notin s3

C17_Step ==
  \A p \in Procs :
    /\ (pc[p] \in {"put_audio", "put_video", "put_direct"} /\ pc'[p] = "idle") =>
         /\ ENTRIES' = ENTRIES
         /\ disk' = disk
         /\ file_writes' = file_writes
    /\ (pc[p] = "save_entry" /\ pc'[p] = "idle") =>
         /\ ops[p] # <<>>
         /\ Last(ops[p]) = Call("put", S3KeyOf(resp'[p].entry.media_url), TRUE)
         /\ Collection(req[p].user_id)' = Append(Collection(req[p].user_id), resp'[p].entry)

C17_NoEntryOnFailedPut == []C17_Failed /\ [][C17_Step]_vars

\* The put of the primary file failed on the direct path for a subject that
\* has a collection and a file: the upload ended with 500, the collection is
\* as it was and the file was never written.
C17_Witness ==
  \E p \in Procs :
    /\ Finished(p, "upload")
    /\ ops[p] = <<Call("put", req[p].file_key, FALSE)>>
    /\ resp[p].status = 500
    /\ Collection(req[p].user_id) = <<EarlierEntry>>
    /\ disk = EarlierFile
    /\ file_writes = 0


\* The scratch files a synthesis holds at each point inside the with-block.
ScratchAt(at) ==
  CASE at = "download" -> {"image"}
    [] at = "ffmpeg" -> {"image", "audio"}
    [] at = "put_video" -> {"image", "audio", "output"}
    [] OTHER -> {}

\* C18. Scratch cleanup: the scratch directory is held only while a synthesis
\* is between saving the image and storing the video; whenever an upload has
\* ended, by success, by a failing ffmpeg, or by a failure of saving the
\* image, fetching the audio or storing the video, the directory and the
\* image, audio and output files in it are released.
C18_ScratchReleased ==
  \A p \in Procs :
    /\ pc[p] \in {"download", "ffmpeg", "put_video"} =>
         tmpdir[p] = [held |-> TRUE, files |-> ScratchAt(pc[p])]
    /\ pc[p] \notin {"download", "ffmpeg", "put_video"} =>
         (~tmpdir[p].held /\ tmpdir[p].files = {})

\* A synthesis whose video put failed, after ffmpeg had written the output
\* file, has ended and holds no scratch storage.
C18_Witness ==
  \E p \in Procs :
    /\ Finished(p, "upload")
    /\ Len(ops[p]) = 4
    /\ ops[p][3] = Call("ffmpeg", <<>>, TRUE)
    /\ ~ops[p][4].ok
    /\ resp[p].status = 500
    /\ tmpdir[p] = NoDir


\* The uuids under which audio clips are stored: the second of a request.
AudioUuids == {Uuid(n, 1) : n \in 0..(MaxRequests + 1)}

\* Slot p ends a delete with its write-back in this step.
WritesBack(p) == pc[p] = "write_back" /\ pc'[p] = "idle"

\* C19. Delete is exact: with requests served one after another, a successful
\* delete of id X by subject S leaves S's collection equal to the previous one
\* without the entries whose id is X (the others in their order, unchanged),
\* and leaves every other subject's collection alone; the only S3 call of a
\* delete is one delete of the key the removed entry's media_url was built
\* from, a key under S's namespace; no step removes from the bucket anything
\* but that key, and never the audio object of a synthesized entry.
C19_Calls ==
  \A p \in Procs :
    req[p].kind = "delete" =>
      /\ Len(ops[p]) <= 1
      /\ \A i \in 1..Len(ops[p]) :
           /\ ops[p][i].op = "delete"
           /\ UrlFor(ops[p][i].key) = req[p].deleted_entry.media_url
           /\ Len(ops[p][i].key) = 6
           /\ ops[p][i].key[1] = "user_uploads/"
           /\ ops[p][i].key[2] = req[p].user_id
           /\ ops[p][i].key[4] \notin AudioUuids
           /\ req[p].deleted_entry.id = req[p].entry_id

C19_Step ==
  /\ \A p \in Procs :
       WritesBack(p) =>
         /\ resp'[p].status = 200
         /\ Collection(req[p].user_id)' =
              SelectSeq(Collection(req[p].user_id), LAMBDA e : e.id # req[p].entry_id)
         /\ \A v \in Subjects \ {req[p].user_id} : Held(ENTRIES', v) = Held(ENTRIES, v)
         /\ s3' = s3
  /\ \A k \in s3 \ s3' :
       /\ k[4] \notin AudioUuids
       /\ \E p \in Procs :
            /\ pc[p] = "s3_delete"
            /\ \E i \in 1..Len(Collection(req[p].user_id)) :
                 /\ Collection(req[p].user_id)[i].id = req[p].entry_id
                 /\ Collection(req[p].user_id)[i].media_url = UrlFor(k)
  /\ s3' \ s3 # {} => \A p \in Procs : req[p].kind # "delete"

C19_ExactDelete == []C19_Calls /\ [][C19_Step]_vars

\* A synthesized entry was deleted: the video object is gone from the bucket,
\* the audio object stored for it is still there, and the subject's earlier
\* entry is all that is left of its collection.
C19_Witness ==
  \E p \in Procs :
    /\ FoundDelete(p)
    /\ resp[p].status = 200
    /\ ops[p][1] = Call("delete", KeyFor("alice", Uuid(1, 2), "mp4"), TRUE)
    /\ KeyFor("alice", Uuid(1, 2), "mp4") \notin s3
    /\ KeyFor("alice", Uuid(1, 1), "m4a") \in s3
    /\ Collection("alice") = <<EarlierEntry>>


\* Both slots show a finished delete of the same id by the same subject; the
\* second was taken while the first was in flight, and the entry existed.
TwoDeletesOfOne ==
  /\ \A p \in Procs : Finished(p, "delete")
  /\ req[1].user_id = req[2].user_id
  /\ req[1].user_id \in Subjects
  /\ req[1].entry_id = req[2].entry_id
  /\ req[2].seq = req[1].seq + 1
  /\ \E p \in Procs : resp[p].status = 200

\* C20. Concurrent deletes of one entry: of two concurrent deletes of the same
\* existing id by the same subject one returns success and the other 404, and
\* the S3 delete of the entry's media is issued at most once.
C20_ConcurrentDeletes ==
  TwoDeletesOfOne =>
    /\ {resp[p].status : p \in Procs} = {200, 404}
    /\ Len(ops[1]) + Len(ops[2]) <= 1

\* Both deletes returned success and each issued the S3 delete of the same key.
C20_BothSucceed ==
  /\ TwoDeletesOfOne
  /\ \A p \in Procs : resp[p].status = 200 /\ Len(ops[p]) = 1
  /\ ops[1][1].key = ops[2][1].key

====
